---- MODULE Spec2Model ----
(***************************************************************************)
(* Model of the `h` command-line HTTP client (src/http-request-cli.js).    *)
(* Strings are sequences of one-character strings, so that the string      *)
(* conversions of the program (split, indexOf, substring, trim, join,      *)
(* replace, toLowerCase, startsWith) are computed, not assumed.            *)
(***************************************************************************)
EXTENDS Integers, Sequences, FiniteSets

VARIABLES
    \* ---- props2json, taken step by step (replace/split, then the reduce)
    ppc,        \* "idle" | "start" | "reduce" | "done"
    props,      \* the argument of props2json
    lines,      \* the array produced by .replace(...).split('\n')
    idx,        \* number of lines the reduce has consumed
    obj,        \* the reduce accumulator
    \* ---- one invocation of the command line
    pc,         \* "idle" | "args" | "pending" | "responded" | "done" | "crashed"
    inv,        \* number of the invocation (1-based)
    method,     \* first argument of sendRequest
    url,        \* second argument of sendRequest
    commander,  \* the parsed options (commander.verbose, .output, ...)
    header,     \* the object commander.header, aliased by options.headers
    lastArg,    \* the last -H argument handed to addHeader
    nArgs,      \* number of -H arguments parsed so far
    options,    \* the options object given to axios
    axiosLib,   \* which module was required: "axios" | "axios-https-proxy-fix"
    response,   \* the response (or error) the transport delivered
    terminal,   \* what has been logged, as a set of kinds of output
    cookieFile, \* content of the file named by -c, or Absent
    outFile,    \* content of the file named by -o, or Absent
    pendingIO,  \* asynchronous file operations started and not yet completed
    reads,      \* reads of the cookie file in this invocation
    writes,     \* writes of the cookie file started in this invocation
    lastSaved   \* the Set-Cookie list of the last completed cookie-file write

propsVars == <<ppc, props, lines, idx, obj>>
reqVars == <<pc, inv, method, url, commander, header, lastArg, nArgs, options,
             axiosLib, response, terminal, cookieFile, outFile, pendingIO,
             reads, writes, lastSaved>>
vars == <<propsVars, reqVars>>

\* ------------------------------------------------------------------------
\* JavaScript values and string primitives
\* ------------------------------------------------------------------------

Undefined == "undefined"

BS == "\\"
NL == "\n"
SP == " "

Min(a, b) == IF a < b THEN a ELSE b
Max(a, b) == IF a > b THEN a ELSE b

\* String.prototype.indexOf(c): 0-based index of the first c, or -1
indexOf(s, c) ==
    IF \E i \in 1..Len(s) : s[i] = c
    THEN (CHOOSE i \in 1..Len(s) : s[i] = c /\ \A j \in 1..(i-1) : s[j] # c) - 1
    ELSE -1

\* String.prototype.substring(a, b), 0-based, arguments clamped to [0, length]
substring(s, a, b) ==
    LET lo == Min(Max(Min(a, b), 0), Len(s))
        hi == Min(Max(Max(a, b), 0), Len(s))
    IN  SubSeq(s, lo + 1, hi)

\* String.prototype.substring(a)
substringFrom(s, a) == substring(s, a, Len(s))

IsSpace(c) == c \in {SP, NL, "\t", "\r"}

\* String.prototype.trim()
RECURSIVE trimStart(_)
trimStart(s) == IF s # <<>> /\ IsSpace(Head(s)) THEN trimStart(Tail(s)) ELSE s
RECURSIVE trimEnd(_)
trimEnd(s) ==
    IF s # <<>> /\ IsSpace(s[Len(s)]) THEN trimEnd(SubSeq(s, 1, Len(s) - 1)) ELSE s
trim(s) == trimEnd(trimStart(s))

\* String.prototype.split(c) for a one-character separator
RECURSIVE split(_, _)
split(s, c) ==
    LET i == indexOf(s, c)
    IN  IF i < 0 THEN <<s>>
        ELSE <<substring(s, 0, i)>> \o split(substringFrom(s, i + 1), c)

\* Array.prototype.join(sep)
RECURSIVE join(_, _)
join(a, sep) ==
    IF a = <<>> THEN <<>>
    ELSE IF Len(a) = 1 THEN a[1]
    ELSE a[1] \o sep \o join(Tail(a), sep)

\* String.prototype.startsWith(p)
startsWith(s, p) == Len(s) >= Len(p) /\ SubSeq(s, 1, Len(p)) = p

\* obj[key] = value on a plain object (a function from keys to values)
Put(o, key, value) ==
    [k \in (DOMAIN o) \cup {key} |-> IF k = key THEN value ELSE o[k]]

EmptyObj == [k \in {} |-> <<>>]

\* ------------------------------------------------------------------------
\* props2json
\* ------------------------------------------------------------------------

\* 0-based index of the first backslash immediately followed by a newline, or -1
RECURSIVE searchContinuation(_, _)
searchContinuation(s, from) ==
    IF from + 1 >= Len(s) THEN -1
    ELSE IF s[from + 1] = BS /\ s[from + 2] = NL THEN from
    ELSE searchContinuation(s, from + 1)

\* props.replace(/\\\n/, ' '): the pattern has no g flag
replaceContinuation(s) ==
    LET i == searchContinuation(s, 0)
    IN  IF i < 0 THEN s
        ELSE substring(s, 0, i) \o <<SP>> \o substringFrom(s, i + 2)

\* .replace(/\\\n/, ' ').split('\n')
propsLines(p) == split(replaceContinuation(p), NL)

\* let eqIdx = line.indexOf('='); eqIdx = eqIdx > 0 ? eqIdx : line.length;
propsEqIdx(line) ==
    LET eqIdx == indexOf(line, "=")
    IN  IF eqIdx > 0 THEN eqIdx ELSE Len(line)

propsKey(line) == trim(substring(line, 0, propsEqIdx(line)))
propsValue(line) == trim(substringFrom(line, propsEqIdx(line) + 1))

\* the reduce callback: obj[key] = value; return obj
propsReduce(o, line) == Put(o, propsKey(line), propsValue(line))

RECURSIVE propsFold(_, _)
propsFold(o, ls) ==
    IF ls = <<>> THEN o ELSE propsFold(propsReduce(o, Head(ls)), Tail(ls))

props2json(p) == propsFold(EmptyObj, propsLines(p))

\* ------------------------------------------------------------------------
\* Values handled by the request pipeline
\* ------------------------------------------------------------------------

\* JavaScript values, as records of one shape; t is the type tag
JVal(t, b, n, s, o) == [t |-> t, b |-> b, n |-> n, s |-> s, o |-> o]
JUndefined == JVal("undefined", FALSE, 0, <<>>, EmptyObj)
JNull == JVal("null", FALSE, 0, <<>>, EmptyObj)
JBool(b) == JVal("boolean", b, 0, <<>>, EmptyObj)
JNum(n) == JVal("number", FALSE, n, <<>>, EmptyObj)
JStr(s) == JVal("string", FALSE, 0, s, EmptyObj)
JObj(o) == JVal("object", FALSE, 0, <<>>, o)
\* the FormData built for -D; s is the name of the file appended as 'file'
JForm(f) == JVal("form", FALSE, 0, f, EmptyObj)

\* ToBoolean, as applied by if (...) and by the ternary operator
Truthy(v) ==
    CASE v.t = "undefined" -> FALSE
      [] v.t = "null" -> FALSE
      [] v.t = "boolean" -> v.b
      [] v.t = "number" -> v.n # 0
      [] v.t = "string" -> v.s # <<>>
      [] OTHER -> TRUE

\* JsToString, as applied by JSON.parse to its argument
JsToString(v) ==
    CASE v.t = "string" -> v.s
      [] v.t = "boolean" ->
            IF v.b THEN <<"t","r","u","e">> ELSE <<"f","a","l","s","e">>
      [] OTHER -> <<>>

Digits == <<"0","1","2","3","4","5","6","7","8","9">>
IsDigit(c) == \E i \in 1..Len(Digits) : Digits[i] = c
DigitValue(c) == (CHOOSE i \in 1..Len(Digits) : Digits[i] = c) - 1
RECURSIVE NumberValue(_)
NumberValue(s) ==
    IF s = <<>> THEN 0
    ELSE NumberValue(SubSeq(s, 1, Len(s) - 1)) * Len(Digits) + DigitValue(s[Len(s)])

\* JSON.parse on the fragment of JSON made of the literals, unsigned integers
\* without leading zero, strings without escapes, and the empty object; the
\* result is <<value>>, or <<>> when JSON.parse throws.  The data arguments
\* enumerated below lie in the fragment or are no JSON at all.
JSONparse(v) ==
    LET s == trim(JsToString(v))
    IN  CASE s = <<"n","u","l","l">> -> <<JNull>>
          [] s = <<"t","r","u","e">> -> <<JBool(TRUE)>>
          [] s = <<"f","a","l","s","e">> -> <<JBool(FALSE)>>
          [] s # <<>> /\ (\A i \in 1..Len(s) : IsDigit(s[i]))
                /\ (Len(s) = 1 \/ s[1] # "0") -> <<JNum(NumberValue(s))>>
          [] Len(s) >= 2 /\ s[1] = "\"" /\ s[Len(s)] = "\""
                /\ (\A i \in 2..(Len(s) - 1) : s[i] \notin {"\"", BS, NL})
                -> <<JStr(SubSeq(s, 2, Len(s) - 1))>>
          [] Len(s) >= 2 /\ s[1] = "{" /\ s[Len(s)] = "}"
                /\ trim(SubSeq(s, 2, Len(s) - 1)) = <<>> -> <<JObj(EmptyObj)>>
          [] OTHER -> <<>>

LowerCaseOf ==
    [c \in {"A","B","C","D","E","F","G","H","I","J","K","L","M","N","O","P","Q",
            "R","S","T","U","V","W","X","Y","Z"} |->
        CASE c = "A" -> "a" [] c = "B" -> "b" [] c = "C" -> "c" [] c = "D" -> "d"
          [] c = "E" -> "e" [] c = "F" -> "f" [] c = "G" -> "g" [] c = "H" -> "h"
          [] c = "I" -> "i" [] c = "J" -> "j" [] c = "K" -> "k" [] c = "L" -> "l"
          [] c = "M" -> "m" [] c = "N" -> "n" [] c = "O" -> "o" [] c = "P" -> "p"
          [] c = "Q" -> "q" [] c = "R" -> "r" [] c = "S" -> "s" [] c = "T" -> "t"
          [] c = "U" -> "u" [] c = "V" -> "v" [] c = "W" -> "w" [] c = "X" -> "x"
          [] c = "Y" -> "y" [] OTHER -> "z"]

\* String.prototype.toLowerCase()
toLowerCase(s) ==
    [i \in 1..Len(s) |-> IF s[i] \in DOMAIN LowerCaseOf THEN LowerCaseOf[s[i]] ELSE s[i]]

\* keysToLower(obj), as the set of keys of the result
keysToLower(o) == {toLowerCase(k) : k \in DOMAIN o}

\* ------------------------------------------------------------------------
\* new URL(s), for the fields sendRequest reads
\* ------------------------------------------------------------------------

IsAlpha(c) == c \in DOMAIN LowerCaseOf \/ c \in {LowerCaseOf[u] : u \in DOMAIN LowerCaseOf}

\* whether s[1..n] is a URL scheme: a letter, then letters, digits, + - .
IsScheme(s, n) ==
    /\ n >= 1
    /\ IsAlpha(s[1])
    /\ \A i \in 2..n : IsAlpha(s[i]) \/ IsDigit(s[i]) \/ s[i] \in {"+", "-", "."}

DefaultPort(protocol) ==
    CASE protocol = <<"h","t","t","p",":">> -> <<"8","0">>
      [] protocol = <<"h","t","t","p","s",":">> -> <<"4","4","3">>
      [] OTHER -> <<>>

\* new URL(s): <<record>>, or <<>> when the constructor throws TypeError
\* (no scheme).  Parsed: scheme "://" [user[":"password]"@"] host [":"port].
URLparse(s) ==
    LET c == indexOf(s, ":")
    IN  IF c < 0 \/ ~IsScheme(s, c) THEN <<>>
        ELSE
          LET protocol == toLowerCase(substring(s, 0, c + 1))
              rest == substringFrom(s, c + 1)
              hasAuthority == startsWith(rest, <<"/","/">>)
              afterSlashes == IF hasAuthority THEN substringFrom(rest, 2) ELSE <<>>
              slash == indexOf(afterSlashes, "/")
              authority == IF slash < 0 THEN afterSlashes
                           ELSE substring(afterSlashes, 0, slash)
              at == indexOf(authority, "@")
              userinfo == IF at < 0 THEN <<>> ELSE substring(authority, 0, at)
              hostport == IF at < 0 THEN authority ELSE substringFrom(authority, at + 1)
              uc == indexOf(userinfo, ":")
              pcol == indexOf(hostport, ":")
              port == IF pcol < 0 THEN <<>> ELSE substringFrom(hostport, pcol + 1)
          IN  <<[protocol |-> protocol,
                 username |-> IF uc < 0 THEN userinfo ELSE substring(userinfo, 0, uc),
                 password |-> IF uc < 0 THEN <<>> ELSE substringFrom(userinfo, uc + 1),
                 hostname |-> toLowerCase(IF pcol < 0 THEN hostport
                                          ELSE substring(hostport, 0, pcol)),
                 port |-> IF port = DefaultPort(protocol) THEN <<>> ELSE port]>>

\* ------------------------------------------------------------------------
\* Pieces of sendRequest and of the option parsing
\* ------------------------------------------------------------------------

\* addHeader(header, headers): header.split('='), headerItems[0], headerItems[1]
addHeader(arg, headers) ==
    LET headerItems == split(arg, "=")
    IN  Put(headers, headerItems[1],
            IF Len(headerItems) > 1 THEN headerItems[2] ELSE <<>>)

S_http == <<"h","t","t","p">>
S_https_prefix == <<"h","t","t","p","s",":","/","/">>
S_cookie == <<"c","o","o","k","i","e">>
S_content_type == <<"c","o","n","t","e","n","t","-","t","y","p","e">>
S_hello_world == <<"h","e","l","l","o","=","w","o","r","l","d">>
S_form_urlencoded == <<"f","o","r","m">>
S_multipart == <<"m","u","l","t","i","p","a","r","t">>
S_json == <<"j","s","o","n">>
S_application_json == <<"a","p","p","/","j","s","o","n">>

\* truthiness of an option that holds a string (a file name) when given
IsSet(opt) == opt # Undefined /\ opt # ""

\* if (!options.url.startsWith('http')) options.url = 'https://' + options.url
normalizeUrl(u) == IF ~startsWith(u, S_http) THEN S_https_prefix \o u ELSE u

\* faulty variant of responseType: the stream mode is never requested
responseTypeNeverStream(output) == Undefined

\* if (commander.output) options.responseType = 'stream'
responseType(output) == IF IsSet(output) THEN "stream" ELSE Undefined

\* mime.contentType(type), for the tokens used here, then the fallback
getContentTypes(type) ==
    IF type = S_json THEN S_application_json ELSE S_form_urlencoded

\* options.data, from -D and -d
requestData(cmd) ==
    IF IsSet(cmd.datafile) THEN JForm(cmd.datafile)
    ELSE IF Truthy(cmd.data)
         THEN LET parsed == JSONparse(cmd.data)
              IN  IF parsed # <<>> THEN parsed[1]
                  ELSE JObj(props2json(JsToString(cmd.data)))
         ELSE JUndefined

\* the headers object after the data branches: form.getHeaders() for -D,
\* options.headers['content-type'] for -d with -t
dataHeaders(cmd, headers) ==
    IF IsSet(cmd.datafile) THEN Put(headers, S_content_type, S_multipart)
    ELSE IF Truthy(cmd.data) /\ cmd.type # <<>>
         THEN Put(headers, S_content_type, getContentTypes(cmd.type[1]))
         ELSE headers

\* if (options.data && method.toUpperCase() === 'GET')
overridesMethod(m, data) == Truthy(data) /\ m = "GET"
requestMethod(m, data) == IF overridesMethod(m, data) THEN "POST" ELSE m

\* v => v.substring(0, v.indexOf(';') > 0 ? v.indexOf(';') : v.length)
cookiePair(v) == substring(v, 0, IF indexOf(v, ";") > 0 THEN indexOf(v, ";") ELSE Len(v))

cookieMap(ls) == [i \in 1..Len(ls) |-> cookiePair(ls[i])]

\* cookie.split('\n').map(...).join('; ')
loadCookie(content) == join(cookieMap(split(content, NL)), <<";", SP>>)

\* whether the cookie file is read: commander.cookie && fs.existsSync(...)
readsCookie(cmd, file) == IsSet(cmd.cookie) /\ file # <<>>

cookieHeaders(cmd, file, headers) ==
    IF readsCookie(cmd, file) THEN Put(headers, S_cookie, loadCookie(file[1]))
    ELSE headers

\* proxyUrl.protocol === 'http:' && targetUrl.protocol === 'https:'
needsProxyFix(proxyUrl, targetUrl) ==
    proxyUrl.protocol = <<"h","t","t","p",":">>
        /\ targetUrl.protocol = <<"h","t","t","p","s",":">>

\* options.proxy, with auth only if (proxyUrl.username)
proxyOptions(proxyUrl) ==
    [host |-> proxyUrl.hostname, port |-> proxyUrl.port,
     auth |-> IF proxyUrl.username # <<>>
              THEN <<[username |-> proxyUrl.username, password |-> proxyUrl.password]>>
              ELSE <<>>]

\* the request interceptor returns the request it was given; what it builds
\* from keysToLower is only logged
interceptRequest(request) == request

AxiosCommonHeaders == {<<"A","c","c","e","p","t">>}
interceptLog(headers) ==
    {toLowerCase(k) : k \in AxiosCommonHeaders} \cup keysToLower(headers)

\* ------------------------------------------------------------------------
\* Response handling
\* ------------------------------------------------------------------------

Log(kind, data) == [kind |-> kind, data |-> data]

\* showHeaders(response.headers): printed in verbose mode only
showHeaders(cmd) == IF cmd.verbose THEN {Log("response-headers", {})} ELSE {}

\* showData(response.data): if (data) { ...; log(data) }
showData(cmd, data) == IF data # <<>> THEN {Log("body", {data})} ELSE {}

\* if (commander.cookie) { const cookies = ...; if (cookies) { ... } }
savesCookie(cmd, setCookie) == IsSet(cmd.cookie) /\ setCookie # <<>>

\* cookies.push('hello=world')
pushSentinel(cookies) == cookies \o <<S_hello_world>>

\* faulty variant of cookieFileData: the entries are appended to what the file holds
cookieFileDataAppended(file, cookies) ==
    IF file = <<>> THEN join(cookies, <<NL>>)
    ELSE file[1] \o <<NL>> \o join(cookies, <<NL>>)

\* fs.writeFile(commander.cookie, cookies.join('\n'), 'utf8', ...): the file
\* is replaced by the data, whatever it held
cookieFileData(file, cookies) == join(cookies, <<NL>>)

\* ------------------------------------------------------------------------
\* Bounds and input sets
\* ------------------------------------------------------------------------

MaxPropsLen == 4
MaxHeaderArgs == 2
MaxInvocations == 2

PropsAlphabet == {"a", "=", SP, BS, NL}

RECURSIVE StringsUpTo(_, _)
StringsUpTo(alphabet, n) ==
    IF n = 0 THEN {<<>>}
    ELSE LET shorter == StringsUpTo(alphabet, n - 1)
         IN  shorter \cup {Append(t, c) : t \in {u \in shorter : Len(u) = n - 1},
                                          c \in alphabet}

PropsInputs == StringsUpTo(PropsAlphabet, MaxPropsLen)

\* configureMethodCommand('get') ... ('head'), upper-cased by the action
Methods == {"GET", "POST", "PUT", "DELETE", "PATCH", "HEAD"}

\* -H arguments: X=1, x=2, X, X=a=b, Cookie=k
HeaderArgs ==
    { <<"X","=","1">>, <<"x","=","2">>, <<"X">>, <<"X","=","a","=","b">>,
      <<"C","o","o","k","i","e","=","k">> }

\* target URLs: http://a, https://a, a/x, httpx
Targets ==
    { <<"h","t","t","p",":","/","/","a">>, <<"h","t","t","p","s",":","/","/","a">>,
      <<"a","/","x">>, <<"h","t","t","p","x">> }

\* -d arguments: absent, given without a value, 0, null, {}, a=1
DataArgs ==
    { JUndefined, JBool(TRUE), JStr(<<"0">>), JStr(<<"n","u","l","l">>),
      JStr(<<"{","}">>), JStr(<<"a","=","1">>) }

\* -p arguments: http://p:8, https://u:w@p:8
ProxyArgs ==
    { <<"h","t","t","p",":","/","/","p",":","8">>,
      <<"h","t","t","p","s",":","/","/","u",":","w","@","p",":","8">> }

Cmd(verbose, output, data, datafile, type, proxy, cookie) ==
    [verbose |-> verbose, output |-> output, data |-> data, datafile |-> datafile,
     type |-> type, proxy |-> proxy, cookie |-> cookie]

NoCmd == Cmd(FALSE, Undefined, JUndefined, Undefined, <<>>, <<>>, Undefined)

\* command lines that exercise the request building
CliBuild ==
    [methods |-> Methods,
     urls |-> Targets,
     cmds |-> { Cmd(FALSE, Undefined, d, f, t, p, c) :
                  d \in DataArgs, f \in {Undefined, "f.bin"},
                  t \in {<<>>, <<S_json>>},
                  p \in {<<>>} \cup {<<x>> : x \in ProxyArgs},
                  c \in {Undefined, "jar"} }]

\* command lines that exercise the response handling and the cookie file
CliSession ==
    [methods |-> {"GET", "POST"},
     urls |-> { <<"h","t","t","p",":","/","/","a">> },
     cmds |-> { Cmd(v, o, JUndefined, Undefined, <<>>, <<>>, c) :
                  v \in BOOLEAN, o \in {Undefined, "out.bin"},
                  c \in {Undefined, "jar"} }]

\* Set-Cookie entries: "a=1; P", "b=2", ";c"
E1 == <<"a","=","1",";",SP,"P">>
E2 == <<"b","=","2">>
E3 == <<";","c">>

Resp(setCookie, data) == [setCookie |-> setCookie, data |-> data]

ResponsesBuild == { Resp(<<<<E2>>>>, <<"b">>) }

ResponsesSession ==
    { Resp(sc, d) :
        sc \in {<<>>, <<<<E1, E2>>>>, <<<<E2>>>>, <<<<E2, E3>>>>, <<<<E1, E1, E2>>>>},
        d \in {<<>>, <<"b">>} }

NoOptions ==
    [url |-> <<>>, method |-> Undefined, responseType |-> Undefined,
     data |-> JUndefined, proxy |-> <<>>]

NoResponse == [kind |-> "none", setCookie |-> <<>>, received |-> <<>>, data |-> <<>>]

\* ------------------------------------------------------------------------
\* props2json, step by step
\* ------------------------------------------------------------------------

PropsIdle ==
    /\ ppc = "idle" /\ props = <<>> /\ lines = <<>> /\ idx = 0 /\ obj = EmptyObj

ReqIdle ==
    /\ pc = "idle" /\ inv = 0 /\ method = Undefined /\ url = <<>>
    /\ commander = NoCmd /\ header = EmptyObj /\ lastArg = <<>> /\ nArgs = 0
    /\ options = NoOptions /\ axiosLib = "axios" /\ response = NoResponse
    /\ terminal = {} /\ cookieFile = <<>> /\ outFile = <<>> /\ pendingIO = {}
    /\ reads = 0 /\ writes = 0 /\ lastSaved = <<>>

InitProps ==
    /\ ppc = "start" /\ props \in PropsInputs
    /\ lines = <<>> /\ idx = 0 /\ obj = EmptyObj
    /\ ReqIdle

\* props.replace(/\\\n/, ' ').split('\n')
PropsSplit ==
    /\ ppc = "start"
    /\ lines' = propsLines(props)
    /\ ppc' = "reduce"
    /\ UNCHANGED <<props, idx, obj, reqVars>>

\* one call of the reduce callback
PropsReduceStep ==
    /\ ppc = "reduce" /\ idx < Len(lines)
    /\ obj' = propsReduce(obj, lines[idx + 1])
    /\ idx' = idx + 1
    /\ UNCHANGED <<ppc, props, lines, reqVars>>

PropsReturn ==
    /\ ppc = "reduce" /\ idx = Len(lines)
    /\ ppc' = "done"
    /\ UNCHANGED <<props, lines, idx, obj, reqVars>>

NextProps == PropsSplit \/ PropsReduceStep \/ PropsReturn

SpecProps == InitProps /\ [][NextProps]_vars

\* ------------------------------------------------------------------------
\* One invocation of the command line
\* ------------------------------------------------------------------------

InitInvocation ==
    /\ pc = "args" /\ inv = 1 /\ method = Undefined /\ url = <<>>
    /\ commander = NoCmd /\ header = EmptyObj /\ lastArg = <<>> /\ nArgs = 0
    /\ options = NoOptions /\ axiosLib = "axios" /\ response = NoResponse
    /\ terminal = {} /\ outFile = <<>> /\ pendingIO = {}
    /\ reads = 0 /\ writes = 0 /\ lastSaved = <<>>

\* the cookie file holds "k=v; P"
Init ==
    /\ PropsIdle
    /\ InitInvocation
    /\ cookieFile = << <<"k","=","v",";",SP,"P">> >>

InitSession ==
    /\ PropsIdle
    /\ InitInvocation
    /\ cookieFile = <<>>

\* commander hands one -H argument to addHeader
AddHeader ==
    /\ pc = "args" /\ nArgs < MaxHeaderArgs
    /\ \E arg \in HeaderArgs :
          /\ header' = addHeader(arg, header)
          /\ lastArg' = <<arg>>
    /\ nArgs' = nArgs + 1
    /\ UNCHANGED <<pc, inv, method, url, commander, options, axiosLib, response,
                   terminal, cookieFile, outFile, pendingIO, reads, writes,
                   lastSaved, propsVars>>

\* commander.parse sets the remaining options and calls the action of the
\* method subcommand: sendRequest(method.toUpperCase(), url), up to axios(options)
SendRequest(cli) ==
    /\ pc = "args"
    /\ \E m \in cli.methods, u \in cli.urls, cmd \in cli.cmds :
          LET data == requestData(cmd)
              headers == cookieHeaders(cmd, cookieFile, dataHeaders(cmd, header))
              proxyUrl == IF cmd.proxy # <<>> THEN URLparse(cmd.proxy[1]) ELSE <<>>
              \* new URL(url): the argument of sendRequest, not options.url
              targetUrl == IF cmd.proxy # <<>> THEN URLparse(u) ELSE <<>>
              throws == cmd.proxy # <<>> /\ (proxyUrl = <<>> \/ targetUrl = <<>>)
              built == [url |-> normalizeUrl(u),
                        method |-> requestMethod(m, data),
                        responseType |-> responseType(cmd.output),
                        data |-> data,
                        proxy |-> IF cmd.proxy # <<>> /\ ~throws
                                  THEN <<proxyOptions(proxyUrl[1])>> ELSE <<>>]
              warned == IF overridesMethod(m, data)
                        THEN {Log("warning", {})} ELSE {}
              traced == IF cmd.verbose
                        THEN {Log("request-headers", interceptLog(headers))} ELSE {}
          IN  /\ method' = m
              /\ url' = u
              /\ commander' = cmd
              /\ header' = headers
              /\ reads' = IF readsCookie(cmd, cookieFile) THEN reads + 1 ELSE reads
              /\ IF throws
                 THEN /\ pc' = "crashed"
                      /\ options' = built
                      /\ axiosLib' = "axios"
                      /\ terminal' = terminal \cup warned
                 ELSE /\ pc' = "pending"
                      /\ options' = interceptRequest(built)
                      /\ axiosLib' = IF cmd.proxy # <<>>
                                        /\ needsProxyFix(proxyUrl[1], targetUrl[1])
                                     THEN "axios-https-proxy-fix" ELSE "axios"
                      /\ terminal' = terminal \cup warned \cup traced
    /\ UNCHANGED <<inv, lastArg, nArgs, response, cookieFile, outFile, pendingIO,
                   writes, lastSaved, propsVars>>

\* axios(options).then(response => ...)
OnResponse(responses) ==
    /\ pc = "pending"
    /\ \E r \in responses :
          LET saves == savesCookie(commander, r.setCookie)
              cookies == IF saves THEN pushSentinel(r.setCookie[1]) ELSE <<>>
          IN  /\ response' = [kind |-> "response",
                              setCookie |-> IF saves THEN <<cookies>> ELSE r.setCookie,
                              received |-> r.setCookie,
                              data |-> r.data]
              /\ terminal' = terminal \cup
                    (IF IsSet(commander.output) THEN {}
                     ELSE showHeaders(commander) \cup showData(commander, r.data))
              /\ pendingIO' =
                    (IF IsSet(commander.output)
                     THEN {[op |-> "pipe", data |-> r.data, entries |-> <<>>]}
                     ELSE {})
                    \cup
                    (IF saves
                     THEN {[op |-> "writeFile",
                            data |-> cookieFileData(cookieFile, cookies),
                            entries |-> r.setCookie[1]]}
                     ELSE {})
              /\ writes' = IF saves THEN writes + 1 ELSE writes
    /\ pc' = "responded"
    /\ UNCHANGED <<inv, method, url, commander, header, lastArg, nArgs, options,
                   axiosLib, cookieFile, outFile, reads, lastSaved, propsVars>>

\* axios(options) ... .catch(err => { spinner.stop(); logerr(err); })
OnError ==
    /\ pc = "pending"
    /\ response' = [NoResponse EXCEPT !.kind = "error"]
    /\ terminal' = terminal \cup {Log("error", {<<"r","e","q","u","e","s","t">>})}
    /\ pc' = "responded"
    /\ UNCHANGED <<inv, method, url, commander, header, lastArg, nArgs, options,
                   axiosLib, cookieFile, outFile, pendingIO, reads, writes,
                   lastSaved, propsVars>>

\* fs.writeFile completes: the callback is called without error
WriteFileDone ==
    /\ pc = "responded"
    /\ \E io \in pendingIO :
          /\ io.op = "writeFile"
          /\ cookieFile' = <<io.data>>
          /\ lastSaved' = <<io.entries>>
          /\ pendingIO' = pendingIO \ {io}
    /\ UNCHANGED <<pc, inv, method, url, commander, header, lastArg, nArgs,
                   options, axiosLib, response, terminal, outFile, reads, writes,
                   propsVars>>

\* fs.writeFile fails: (err) => { if (err) logerr(err) }.  The file is as it
\* was (the open failed) or empty (it was truncated and the write failed).
WriteFileFail ==
    /\ pc = "responded"
    /\ \E io \in pendingIO :
          /\ io.op = "writeFile"
          /\ pendingIO' = pendingIO \ {io}
    /\ \/ UNCHANGED <<cookieFile, lastSaved>>
       \/ cookieFile' = << <<>> >> /\ lastSaved' = <<>>
    /\ terminal' = terminal \cup {Log("error", {<<"w","r","i","t","e","F","i","l","e">>})}
    /\ UNCHANGED <<pc, inv, method, url, commander, header, lastArg, nArgs,
                   options, axiosLib, response, outFile, reads, writes, propsVars>>

\* writer.on('finish', () => logsuccess('Response saved in ' + commander.output))
PipeFinish ==
    /\ pc = "responded"
    /\ \E io \in pendingIO :
          /\ io.op = "pipe"
          /\ outFile' = <<io.data>>
          /\ pendingIO' = pendingIO \ {io}
    /\ terminal' = terminal \cup {Log("success", {})}
    /\ UNCHANGED <<pc, inv, method, url, commander, header, lastArg, nArgs,
                   options, axiosLib, response, cookieFile, reads, writes,
                   lastSaved, propsVars>>

\* writer.on('error', (err) => logerr('Error when saving response: ' + err))
PipeError ==
    /\ pc = "responded"
    /\ \E io \in pendingIO :
          /\ io.op = "pipe"
          /\ pendingIO' = pendingIO \ {io}
    /\ \/ UNCHANGED outFile
       \/ outFile' = << <<>> >>
    /\ terminal' = terminal \cup {Log("error", {<<"s","a","v","i","n","g">>})}
    /\ UNCHANGED <<pc, inv, method, url, commander, header, lastArg, nArgs,
                   options, axiosLib, response, cookieFile, reads, writes,
                   lastSaved, propsVars>>

\* nothing is pending any more: the process exits
Exit ==
    /\ pc = "responded" /\ pendingIO = {}
    /\ pc' = "done"
    /\ UNCHANGED <<inv, method, url, commander, header, lastArg, nArgs, options,
                   axiosLib, response, terminal, cookieFile, outFile, pendingIO,
                   reads, writes, lastSaved, propsVars>>

\* the command is run again: a new process, the files are as they were left
NewInvocation ==
    /\ pc = "done" /\ inv < MaxInvocations
    /\ pc' = "args" /\ inv' = inv + 1
    /\ method' = Undefined /\ url' = <<>> /\ commander' = NoCmd
    /\ header' = EmptyObj /\ lastArg' = <<>> /\ nArgs' = 0
    /\ options' = NoOptions /\ axiosLib' = "axios" /\ response' = NoResponse
    /\ terminal' = {} /\ reads' = 0 /\ writes' = 0
    /\ UNCHANGED <<cookieFile, outFile, pendingIO, lastSaved, propsVars>>

Next ==
    \/ AddHeader
    \/ SendRequest(CliBuild)
    \/ OnResponse(ResponsesBuild)
    \/ OnError
    \/ WriteFileDone
    \/ WriteFileFail
    \/ Exit

Spec == Init /\ [][Next]_vars

NextSession ==
    \/ SendRequest(CliSession)
    \/ OnResponse(ResponsesSession)
    \/ OnError
    \/ WriteFileDone
    \/ WriteFileFail
    \/ PipeFinish
    \/ PipeError
    \/ Exit
    \/ NewInvocation

SpecSession == InitSession /\ [][NextSession]_vars

\* ------------------------------------------------------------------------
\* Properties
\* ------------------------------------------------------------------------

Sent == pc \in {"pending", "responded", "done"}

S_http_prefix == <<"h","t","t","p",":","/","/">>

\* C1: whenever sendRequest has built a body (options.data was assigned from
\* -d or -D) and the method asked for is GET, the request handed to the
\* transport has method POST and the warning has been logged.
C1_GetWithBodyIsPost ==
    (Sent /\ method = "GET" /\ options.data.t # "undefined")
        => (options.method = "POST" /\ Log("warning", {}) \in terminal)

\* C2: the URL sent is the target itself when the target begins with http://
\* or https://, and "https://" followed by the target otherwise.
C2_UrlNormalized ==
    Sent => options.url =
                IF startsWith(url, S_http_prefix) \/ startsWith(url, S_https_prefix)
                THEN url ELSE S_https_prefix \o url

\* C3: after addHeader has handled a -H argument, the headers map the text
\* before the first '=' to everything after that '=' (to "" without '=').
C3_HeaderNameValue ==
    (pc = "args" /\ lastArg # <<>>) =>
        LET arg == lastArg[1]
            i == indexOf(arg, "=")
            name == IF i < 0 THEN arg ELSE substring(arg, 0, i)
            value == IF i < 0 THEN <<>> ELSE substringFrom(arg, i + 1)
        IN  name \in DOMAIN header /\ header[name] = value

\* C4: each line props2json reduces yields the entry whose key is the trimmed
\* text before the first '=' of the line, wherever it is (position 0
\* included), and whose value is the trimmed text after it; a line without
\* '=' yields the whole trimmed line with value "".
C4_LineSplitAtFirstEq ==
    (ppc \in {"reduce", "done"} /\ idx > 0) =>
        LET line == lines[idx]
            i == indexOf(line, "=")
            key == trim(IF i < 0 THEN line ELSE substring(line, 0, i))
            value == IF i < 0 THEN <<>> ELSE trim(substringFrom(line, i + 1))
        IN  key \in DOMAIN obj /\ obj[key] = value

\* newlines of s that no backslash precedes
UnescapedNewlines(s) ==
    Cardinality({i \in 1..Len(s) : s[i] = NL /\ (i = 1 \/ s[i - 1] # BS)})

\* C5: the number of lines props2json parses is the number of newlines of
\* the data that are not preceded by a backslash, plus one.
C5_EveryContinuationCollapsed ==
    ppc \in {"reduce", "done"} => Len(lines) = UnescapedNewlines(props) + 1

\* the name=value part of a Set-Cookie entry: the text before its first ';'
NameValuePart(e) == IF indexOf(e, ";") < 0 THEN e ELSE substring(e, 0, indexOf(e, ";"))

\* C6: when an invocation loads a cookie file that a previous invocation
\* saved from the Set-Cookie list L, the Cookie header is the name=value part
\* of each entry of L, then hello=world, joined with "; ".
C6_CookieRoundTrip ==
    (pc = "pending" /\ reads = 1 /\ lastSaved # <<>>) =>
        /\ S_cookie \in DOMAIN header
        /\ header[S_cookie] =
              join([i \in 1..Len(lastSaved[1]) |-> NameValuePart(lastSaved[1][i])]
                       \o <<S_hello_world>>,
                   <<";", SP>>)

Printed(kind) == \E l \in terminal : l.kind = kind

\* what C7 says of a state
OutputExclusive ==
    Sent =>
        IF IsSet(commander.output)
        THEN /\ options.responseType = "stream"
             /\ ~Printed("response-headers") /\ ~Printed("body")
             /\ response.kind = "response" =>
                   \/ [op |-> "pipe", data |-> response.data, entries |-> <<>>]
                          \in pendingIO
                   \/ Printed("success") /\ outFile = <<response.data>>
                   \/ Log("error", {<<"s","a","v","i","n","g">>}) \in terminal
        ELSE /\ options.responseType # "stream"
             /\ \A io \in pendingIO : io.op # "pipe"
             /\ ~Printed("success")
             /\ response.kind = "response" =>
                   /\ commander.verbose => Printed("response-headers")
                   /\ response.data # <<>> => Log("body", {response.data}) \in terminal

\* C7: with -o the request is sent in stream mode, the response body is piped
\* to the output file and neither response headers nor body are printed;
\* without -o the response is buffered and rendered on the terminal, and no
\* step of the invocation creates or writes the output file.
C7_OutputModeExclusive ==
    [][ /\ OutputExclusive'
        /\ ~IsSet(commander'.output) => outFile' = outFile ]_vars

\* a second invocation, without -o, has printed the body and left alone the
\* file that the first invocation, with -o, had piped its response to
C7_Witness ==
    /\ inv = 2 /\ pc = "done" /\ ~IsSet(commander.output)
    /\ response.kind = "response" /\ Log("body", {<<"b">>}) \in terminal
    /\ outFile = << <<"b">> >>

\* C8: with -p the request is sent with the proxy's host, port and
\* credentials, and the alternate transport is selected exactly when the
\* proxy is http and the target, as sent, is https.
C8_ProxyTransport ==
    (pc # "args" /\ commander.proxy # <<>>) =>
        /\ Sent
        /\ options.proxy # <<>>
        /\ (axiosLib = "axios-https-proxy-fix") <=>
              (startsWith(commander.proxy[1], S_http_prefix)
                  /\ startsWith(options.url, S_https_prefix))

\* C9: the header keys of the request sent are in a single case, so that no
\* two of them differ only in letter case: a name set more than once (by -H,
\* by -t or from the cookie file) is sent as one entry.  Stated here is that
\* consequence, which is what reaches the transport.
C9_HeaderNamesSingleCase ==
    Sent => \A k1, k2 \in DOMAIN header :
                toLowerCase(k1) = toLowerCase(k2) => k1 = k2

WriteReported == Log("error", {<<"w","r","i","t","e","F","i","l","e">>})

\* C10: in an invocation the cookie file is read at most once and only before
\* the request is sent; a write is started at most once, only when the
\* response arrives, and exactly when the response carries Set-Cookie entries
\* (and -c is given); the file changes only by that write, and unless the
\* write is reported as failed the file then holds the entries of that
\* response and one hello=world, one per line, and nothing of what it held;
\* without Set-Cookie entries, or when the transport fails, it is unchanged.
C10_CookieFileLifecycle ==
    [][ /\ reads' <= 1 /\ writes' <= 1
        /\ reads' > reads => pc = "args"
        /\ writes' > writes => pc = "pending" /\ response'.kind = "response"
        /\ (pc = "pending" /\ pc' = "responded" /\ IsSet(commander.cookie)) =>
              (writes' = writes + 1 <=> response'.received # <<>>)
        /\ (pc = "pending" /\ pc' = "responded") => cookieFile' = cookieFile
        /\ cookieFile' # cookieFile =>
              /\ pc = "responded" /\ writes = 1
              /\ response.kind = "response" /\ response.received # <<>>
              /\ WriteReported \notin terminal' =>
                    cookieFile' = <<join(response.received[1] \o <<S_hello_world>>,
                                         <<NL>>)>>
      ]_vars

\* a second invocation has replaced the file the first one had written
C10_Witness ==
    /\ inv = 2 /\ pc = "done" /\ writes = 1 /\ reads = 1
    /\ response.received = << <<E2>> >>
    /\ cookieFile = <<E2 \o <<NL>> \o S_hello_world>>
    /\ WriteReported \notin terminal

====
